---------------------------- MODULE Spec2Model ----------------------------
(***************************************************************************)
(* A model of the housing assistant's core:                                *)
(*   src/app.py         evaluate_sql_condition, haversine, filter_houses   *)
(*   src/rate_house.py  the POI classification loop of                     *)
(*                      find_nearby_amenities_with_counts and              *)
(*                      check_living_function_updated                      *)
(*                                                                         *)
(* Python values are tagged records: [t |-> "none"] is None, "num" an      *)
(* int/float, "str" a string (a sequence of one-character strings), "list" *)
(* a list, and "absent" marks a key that the dict does not hold.           *)
(***************************************************************************)
EXTENDS Integers, Sequences, FiniteSets, TLC

VARIABLES
    house_data,      \* app.py:32  the shared listing collection
    pc,              \* per session: position inside filter_houses
    criteria,        \* per session: the criteria argument of the call
    filtered,        \* per session: the local variable `filtered`
    result,          \* per session: the value filter_houses returned
    value,           \* evaluate_sql_condition: argument `value`
    condition_str,   \* evaluate_sql_condition: argument `condition_str`
    parts,           \* how condition_str was put together (ghost, for the claims)
    returned,        \* evaluate_sql_condition: the value returned
    elements,        \* rate_house.py:41  data["elements"]
    idx,             \* rate_house.py:41  number of elements the loop has consumed
    all_found_tags,  \* rate_house.py:40
    apc,             \* position inside rate_house.py's script
    amenity_counts,  \* rate_house.py:84  the Counter returned
    score,           \* rate_house.py:95  the local `score` when the function returns
    rating           \* rate_house.py:109 the text check_living_function_updated returns

filterVars == <<house_data, pc, criteria, filtered, result>>
condVars == <<value, condition_str, parts, returned>>
amenityVars == <<elements, idx, all_found_tags, apc, amenity_counts, score, rating>>
vars == <<house_data, pc, criteria, filtered, result,
          value, condition_str, parts, returned,
          elements, idx, all_found_tags, apc, amenity_counts, score, rating>>

-----------------------------------------------------------------------------
(* Python values *)

NONE == [t |-> "none"]
ABSENT == [t |-> "absent"]
Num(n) == [t |-> "num", n |-> n]
Str(s) == [t |-> "str", s |-> s]
List(l) == [t |-> "list", l |-> l]

\* dict.get(key): None when the key is missing
Get(d, k) == IF d[k].t = "absent" THEN NONE ELSE d[k]

\* Python truthiness, as `if x` and `not x` use it
Truthy(x) ==
    CASE x.t = "none" -> FALSE
      [] x.t = "absent" -> FALSE
      [] x.t = "num" -> x.n # 0
      [] x.t = "str" -> Len(x.s) > 0
      [] x.t = "list" -> Len(x.l) > 0

\* the items iterating over a list or a string yields
Items(x) == IF x.t = "list" THEN x.l ELSE x.s

Range(s) == {s[i] : i \in 1..Len(s)}

Drop(s, n) == SubSeq(s, n + 1, Len(s))

-----------------------------------------------------------------------------
(* evaluate_sql_condition, src/app.py:95-115 *)

Digits == {"0", "1", "2", "3", "4", "5", "6", "7", "8", "9"}
Letters == {"a", "b", "c", "d", "e", "f", "g", "h", "i", "j", "k", "l", "m",
            "n", "o", "p", "q", "r", "s", "t", "u", "v", "w", "x", "y", "z"}
\* the character classes of the pattern at app.py:101
WordChars == Letters \cup Digits \cup {"_"}
SpaceChars == {" ", "\t", "\n"}
OperatorChars == {"<", ">", "=", "!"}
NumberChars == Digits \cup {"."}

RECURSIVE StartsWith(_, _)
StartsWith(s, p) ==
    IF p = <<>> THEN TRUE
    ELSE IF s = <<>> THEN FALSE
    ELSE Head(s) = Head(p) /\ StartsWith(Tail(s), Tail(p))

\* str.replace(old, new): leftmost non-overlapping occurrences
RECURSIVE Replace(_, _, _)
Replace(s, old, new) ==
    IF s = <<>> THEN <<>>
    ELSE IF StartsWith(s, old) THEN new \o Replace(Drop(s, Len(old)), old, new)
    ELSE <<Head(s)>> \o Replace(Tail(s), old, new)

\* length of the longest prefix of s made of characters of cls (a greedy x*)
RECURSIVE PrefixLen(_, _)
PrefixLen(s, cls) ==
    IF s = <<>> \/ Head(s) \notin cls THEN 0
    ELSE 1 + PrefixLen(Tail(s), cls)

\* re.match(r'^\w+\s*([<>=!]+)\s*([\d\.]+)$', s): neighbouring classes are
\* disjoint, so the greedy split is the only possible one; `$` also matches
\* just before a final newline.
ReMatch(s) ==
    LET n1 == PrefixLen(s, WordChars)
        s1 == Drop(s, n1)
        n2 == PrefixLen(s1, SpaceChars)
        s2 == Drop(s1, n2)
        n3 == PrefixLen(s2, OperatorChars)
        s3 == Drop(s2, n3)
        n4 == PrefixLen(s3, SpaceChars)
        s4 == Drop(s3, n4)
        n5 == PrefixLen(s4, NumberChars)
        s5 == Drop(s4, n5)
    IN  IF n1 >= 1 /\ n3 >= 1 /\ n5 >= 1 /\ (s5 = <<>> \/ s5 = <<"\n">>)
        THEN [matched |-> TRUE, group1 |-> SubSeq(s2, 1, n3), group2 |-> SubSeq(s4, 1, n5)]
        ELSE [matched |-> FALSE, group1 |-> <<>>, group2 |-> <<>>]

DigitValue(c) ==
    CASE c = "0" -> 0 [] c = "1" -> 1 [] c = "2" -> 2 [] c = "3" -> 3
      [] c = "4" -> 4 [] c = "5" -> 5 [] c = "6" -> 6 [] c = "7" -> 7
      [] c = "8" -> 8 [] c = "9" -> 9

RECURSIVE DigitsValue(_, _)
DigitsValue(s, acc) ==
    IF s = <<>> THEN acc ELSE DigitsValue(Tail(s), 10 * acc + DigitValue(Head(s)))

RECURSIVE Pow10(_)
Pow10(n) == IF n = 0 THEN 1 ELSE 10 * Pow10(n - 1)

\* float(text) that skips the dots it cannot place instead of raising
FloatLenient(text) ==
    LET digs == SelectSeq(text, LAMBDA c : c \in Digits)
    IN  [ok |-> Len(digs) >= 1, num |-> DigitsValue(digs, 0), den |-> 1]

\* float(text) for a text of digits and dots: ValueError unless it holds at
\* most one dot and at least one digit; the value is num / den.
Float(text) ==
    LET dots == {i \in 1..Len(text) : text[i] = "."}
        digs == SelectSeq(text, LAMBDA c : c \in Digits)
        frac == IF dots = {} THEN 0 ELSE Len(text) - (CHOOSE i \in dots : TRUE)
    IN  IF Cardinality(dots) <= 1 /\ Len(digs) >= 1
        THEN [ok |-> TRUE, num |-> DigitsValue(digs, 0), den |-> Pow10(frac)]
        ELSE [ok |-> FALSE, num |-> 0, den |-> 1]

price_token == <<"p", "r", "i", "c", "e">>
age_token == <<"a", "g", "e">>
size_token == <<"s", "i", "z", "e">>
value_token == <<"v", "a", "l", "u", "e">>

\* the comparisons with `<=` written as `<`
CompareStrict(val, operator, f) ==
    IF val.t # "num" THEN operator # <<"=">>
    ELSE CASE operator = <<"<", "=">> -> val.n * f.den < f.num
           [] operator = <<">", "=">> -> val.n * f.den >= f.num
           [] operator = <<"<">> -> val.n * f.den < f.num
           [] operator = <<">">> -> val.n * f.den > f.num
           [] operator = <<"=">> -> val.n * f.den = f.num
           [] operator = <<"!", "=">> -> val.n * f.den # f.num
           [] OTHER -> TRUE

\* app.py:107-113 once the threshold is parsed; an ordering comparison of a
\* non-number with a float raises TypeError, which app.py:114 turns into True
Compare(val, operator, f) ==
    LET ordered == operator \in {<<"<", "=">>, <<">", "=">>, <<"<">>, <<">">>}
    IN  IF val.t # "num"
        THEN (IF ordered THEN TRUE
              ELSE IF operator = <<"=">> THEN FALSE
              ELSE TRUE)
        ELSE CASE operator = <<"<", "=">> -> val.n * f.den <= f.num
               [] operator = <<">", "=">> -> val.n * f.den >= f.num
               [] operator = <<"<">> -> val.n * f.den < f.num
               [] operator = <<">">> -> val.n * f.den > f.num
               [] operator = <<"=">> -> val.n * f.den = f.num
               [] operator = <<"!", "=">> -> val.n * f.den # f.num
               [] OTHER -> TRUE

evaluate_sql_condition(val, cond) ==
    IF ~Truthy(cond) \/ cond.t # "str" THEN TRUE
    ELSE LET replaced == Replace(Replace(Replace(cond.s, price_token, value_token),
                                         age_token, value_token),
                                 size_token, value_token)
             match == ReMatch(replaced)
         IN  IF ~match.matched THEN TRUE
             ELSE LET condition_value == Float(match.group2)
                  IN  IF ~condition_value.ok THEN TRUE
                      ELSE Compare(val, match.group1, condition_value)

-----------------------------------------------------------------------------
(* haversine, src/app.py:84-93 *)

\* Coordinates are in hundredths of a degree.  The function is real-valued;
\* it is tabulated here on the coordinates the model uses, as the kilometres
\* app.py:84-93 returns rounded up to a whole kilometre, so that for an
\* integer radius r:  haversine(..) <= r  in the code iff  haversine(..) <= r
\* here.  (25.00,121.50)-(25.01,121.50) is 1.1119 km, (25.00,121.50)-
\* (26.00,122.50) is 149.788 km, (25.01,121.50)-(26.00,122.50) is 148.962 km.
haversine(lat1, lon1, lat2, lon2) ==
    LET a == <<lat1, lon1>>
        b == <<lat2, lon2>>
        near == {<<2500, 12150>>, <<2501, 12150>>}
        far == <<2600, 12250>>
    IN  CASE a = b -> 0
          [] a \in near /\ b \in near -> 2
          [] {a, b} = {<<2500, 12150>>, far} -> 150
          [] {a, b} = {<<2501, 12150>>, far} -> 149

-----------------------------------------------------------------------------
(* The listing collection, src/app.py:29-39 *)

\* the largest collection the model loads
MaxHouses == 12

\* kinds of record found in data.json; `label` may be missing from a record
ListingKinds == <<
    [latitude |-> 2500, longitude |-> 12150, price |-> 20, age |-> 5, size |-> 30,
     label |-> List(<<>>)],
    [latitude |-> 2600, longitude |-> 12250, price |-> 30, age |-> 20, size |-> 50,
     label |-> List(<<"temple">>)],
    [latitude |-> 2501, longitude |-> 12150, price |-> 25, age |-> 10, size |-> 30,
     label |-> List(<<"hospital", "MRT station">>)],
    [latitude |-> 2500, longitude |-> 12150, price |-> 20, age |-> 5, size |-> 40,
     label |-> ABSENT],
    [latitude |-> 2501, longitude |-> 12150, price |-> 30, age |-> 0, size |-> 30,
     label |-> List(<<"temple", "park">>)],
    [latitude |-> 2500, longitude |-> 12150, price |-> 25, age |-> 10, size |-> 50,
     label |-> List(<<"hospital">>)] >>

\* the i-th record of a collection whose kinds run through ListingKinds from
\* `first` on in steps of `stride`; `name` tells the records apart
Listing(i, first, stride) ==
    LET k == ListingKinds[((first - 1 + (i - 1) * stride) % Len(ListingKinds)) + 1]
    IN  [name |-> i, latitude |-> k.latitude, longitude |-> k.longitude,
         price |-> k.price, age |-> k.age, size |-> k.size, label |-> k.label]

\* collections that are empty, hold one record, or hold more than the result cap
Collections ==
    {[i \in 1..n |-> Listing(i, fs[1], fs[2])] :
        n \in {0, 1, MaxHouses - 1, MaxHouses},
        fs \in {<<1, 1>>, <<2, 5>>, <<1, 0>>, <<4, 0>>}}

\* h.get('label', [])
LabelOf(h) == IF h.label.t = "absent" THEN <<>> ELSE h.label.l

-----------------------------------------------------------------------------
(* filter_houses, src/app.py:117-146 *)

\* app.py:146
ResultCap == 10

Str_price_le_25 == <<"p", "r", "i", "c", "e", "<", "=", "2", "5">>
Str_price_bad == <<"p", "r", "i", "c", "e", " ", "~", "~", " ", "2", "5">>
Str_age_lt_10 == <<"a", "g", "e", " ", "<", " ", "1", "0">>
Str_size_ge_40 == <<"s", "i", "z", "e", " ", ">", "=", " ", "4", "0">>

\* what the translator may hand over for each key (app.py:44-82): null, a
\* missing key, a usable value, or a value of the wrong shape
LocationValues == {NONE, ABSENT, List(<<2500, 12150>>), List(<<2500>>)}
DistanceValues == {NONE, Num(0), Num(1), Num(150), Str(<<"5">>)}
PriceValues == {NONE, Str(Str_price_le_25), Str(Str_price_bad)}
AgeValues == {ABSENT, Str(Str_age_lt_10)}
SizeValues == {NONE, Str(Str_size_ge_40)}
ExcludeValues == {NONE, List(<<"temple">>), Num(5)}
IncludeValues == {NONE, List(<<>>), List(<<"hospital", "MRT station">>)}

AllCriteria ==
    [location : LocationValues, distance : DistanceValues, price : PriceValues,
     age : AgeValues, size : SizeValues,
     labels_to_exclude : ExcludeValues, labels_to_include : IncludeValues]

NoCriteria ==
    [location |-> NONE, distance |-> NONE, price |-> NONE, age |-> NONE, size |-> NONE,
     labels_to_exclude |-> NONE, labels_to_include |-> NONE]

Sessions == {"s1", "s2"}

\* app.py:126-128; unpacking anything but two items raises ValueError, and
\* comparing a float with a string raises TypeError
GeoRaises(c) ==
    \/ c.location.t # "list"
    \/ Len(c.location.l) # 2
    \/ c.distance.t # "num"

GeoFilter(c, hs) ==
    SelectSeq(hs, LAMBDA h : haversine(c.location.l[1], c.location.l[2],
                                         h.latitude, h.longitude) <= c.distance.n)

\* set(x) raises TypeError when x is not iterable
SetRaises(x) == x.t \notin {"list", "str"}

\* app.py:141, the test of the comprehension
ExcludeKeeps(exclude_labels, h) == exclude_labels \cap Range(LabelOf(h)) = {}

\* the inclusion test with any shared label being enough
IncludeKeepsAny(include_labels, h) == include_labels \cap Range(LabelOf(h)) # {}

\* app.py:144, the test of the comprehension
IncludeKeeps(include_labels, h) == include_labels \subseteq Range(LabelOf(h))

\* app.py:119-122
Call(s, c) ==
    /\ pc[s] = "idle"
    /\ criteria' = [criteria EXCEPT ![s] = c]
    /\ IF house_data = <<>>
       THEN /\ result' = [result EXCEPT ![s] = List(<<>>)]
            /\ pc' = [pc EXCEPT ![s] = "done"]
            /\ UNCHANGED filtered
       ELSE /\ filtered' = [filtered EXCEPT ![s] = house_data]
            /\ pc' = [pc EXCEPT ![s] = "geo"]
            /\ UNCHANGED result
    /\ UNCHANGED <<house_data, condVars, amenityVars>>

\* app.py:125-128
GeoStage(s) ==
    /\ pc[s] = "geo"
    /\ LET c == criteria[s]
       IN  IF Truthy(Get(c, "location")) /\ Truthy(Get(c, "distance"))
           THEN IF GeoRaises(c)
                THEN /\ pc' = [pc EXCEPT ![s] = "error"]
                     /\ UNCHANGED filtered
                ELSE /\ filtered' = [filtered EXCEPT ![s] = GeoFilter(c, filtered[s])]
                     /\ pc' = [pc EXCEPT ![s] = "price"]
           ELSE /\ pc' = [pc EXCEPT ![s] = "price"]
                /\ UNCHANGED filtered
    /\ UNCHANGED <<house_data, criteria, result, condVars, amenityVars>>

\* app.py:131-136: the same statement for the keys price, age and size
ConditionStage(s, here, key, next) ==
    /\ pc[s] = here
    /\ LET c == criteria[s]
       IN  IF Truthy(Get(c, key))
           THEN filtered' = [filtered EXCEPT ![s] =
                    SelectSeq(filtered[s],
                              LAMBDA h : evaluate_sql_condition(Num(h[key]), c[key]))]
           ELSE UNCHANGED filtered
    /\ pc' = [pc EXCEPT ![s] = next]
    /\ UNCHANGED <<house_data, criteria, result, condVars, amenityVars>>

\* app.py:131-132
PriceStage(s) == ConditionStage(s, "price", "price", "age")
\* app.py:133-134
AgeStage(s) == ConditionStage(s, "age", "age", "size")
\* app.py:135-136
SizeStage(s) == ConditionStage(s, "size", "size", "exclude")

\* app.py:139-141
ExcludeStage(s) ==
    /\ pc[s] = "exclude"
    /\ LET c == criteria[s]
       IN  IF Truthy(Get(c, "labels_to_exclude"))
           THEN IF SetRaises(c.labels_to_exclude)
                THEN /\ pc' = [pc EXCEPT ![s] = "error"]
                     /\ UNCHANGED filtered
                ELSE /\ LET exclude_labels == Range(Items(c.labels_to_exclude))
                        IN  filtered' = [filtered EXCEPT ![s] =
                                SelectSeq(filtered[s],
                                    LAMBDA h : ExcludeKeeps(exclude_labels, h))]
                     /\ pc' = [pc EXCEPT ![s] = "include"]
           ELSE /\ pc' = [pc EXCEPT ![s] = "include"]
                /\ UNCHANGED filtered
    /\ UNCHANGED <<house_data, criteria, result, condVars, amenityVars>>

\* app.py:142-144
IncludeStage(s) ==
    /\ pc[s] = "include"
    /\ LET c == criteria[s]
       IN  IF Truthy(Get(c, "labels_to_include"))
           THEN IF SetRaises(c.labels_to_include)
                THEN /\ pc' = [pc EXCEPT ![s] = "error"]
                     /\ UNCHANGED filtered
                ELSE /\ LET include_labels == Range(Items(c.labels_to_include))
                        IN  filtered' = [filtered EXCEPT ![s] =
                                SelectSeq(filtered[s],
                                    LAMBDA h : IncludeKeeps(include_labels, h))]
                     /\ pc' = [pc EXCEPT ![s] = "truncate"]
           ELSE /\ pc' = [pc EXCEPT ![s] = "truncate"]
                /\ UNCHANGED filtered
    /\ UNCHANGED <<house_data, criteria, result, condVars, amenityVars>>

\* filtered[:9]
SliceShort(hs) == SubSeq(hs, 1, IF Len(hs) < ResultCap - 1 THEN Len(hs) ELSE ResultCap - 1)

\* filtered[:10]
Slice(hs) == SubSeq(hs, 1, IF Len(hs) < ResultCap THEN Len(hs) ELSE ResultCap)

\* del filtered[10:] in place: when no stage has rebound `filtered`, it is
\* still the list house_data names
TruncateInPlace(s) ==
    /\ pc[s] = "truncate"
    /\ result' = [result EXCEPT ![s] = List(Slice(filtered[s]))]
    /\ house_data' = IF filtered[s] = house_data THEN Slice(house_data) ELSE house_data
    /\ pc' = [pc EXCEPT ![s] = "done"]
    /\ UNCHANGED <<criteria, filtered, condVars, amenityVars>>

\* app.py:146
Truncate(s) ==
    /\ pc[s] = "truncate"
    /\ result' = [result EXCEPT ![s] = List(Slice(filtered[s]))]
    /\ pc' = [pc EXCEPT ![s] = "done"]
    /\ UNCHANGED <<house_data, criteria, filtered, condVars, amenityVars>>

\* app.py:172-190 (or the exception leaving chat): the call is over and its
\* locals are gone; the session may ask again
Finish(s) ==
    /\ pc[s] \in {"done", "error"}
    /\ pc' = [pc EXCEPT ![s] = "idle"]
    /\ criteria' = [criteria EXCEPT ![s] = NoCriteria]
    /\ filtered' = [filtered EXCEPT ![s] = <<>>]
    /\ result' = [result EXCEPT ![s] = NONE]
    /\ UNCHANGED <<house_data, condVars, amenityVars>>

-----------------------------------------------------------------------------
(* Calls of evaluate_sql_condition on its own *)

Bool(b) == [t |-> "bool", b |-> b]
PENDING == [t |-> "pending"]

SixOperators == {<<"<", "=">>, <<">", "=">>, <<"<">>, <<">">>, <<"=">>, <<"!", "=">>}

Identifiers == {price_token, age_token, size_token, <<"x">>, <<"r", "o", "o", "m", "_", "1">>}
Gaps == {<<>>, <<" ">>}
OperatorTexts == SixOperators \cup {<<"=", "=">>, <<"<", ">">>, <<"=", "<">>, <<"!">>}

\* threshold texts: `number` says whether the text denotes a number (num/den),
\* `plain` whether it is an unsigned decimal literal without exponent
NumberTexts == {
    [text |-> <<"1">>, number |-> TRUE, plain |-> TRUE, num |-> 1, den |-> 1],
    [text |-> <<"1", "0", "0">>, number |-> TRUE, plain |-> TRUE, num |-> 100, den |-> 1],
    [text |-> <<"1", ".", "5">>, number |-> TRUE, plain |-> TRUE, num |-> 3, den |-> 2],
    [text |-> <<"2", ".">>, number |-> TRUE, plain |-> TRUE, num |-> 2, den |-> 1],
    [text |-> <<".", "5">>, number |-> TRUE, plain |-> TRUE, num |-> 1, den |-> 2],
    [text |-> <<"0", "2">>, number |-> TRUE, plain |-> TRUE, num |-> 2, den |-> 1],
    [text |-> <<"-", "1">>, number |-> TRUE, plain |-> FALSE, num |-> -1, den |-> 1],
    [text |-> <<"1", "e", "2">>, number |-> TRUE, plain |-> FALSE, num |-> 100, den |-> 1],
    [text |-> <<"1", ".", "2", ".", "3">>, number |-> FALSE, plain |-> FALSE, num |-> 0, den |-> 1],
    [text |-> <<".">>, number |-> FALSE, plain |-> FALSE, num |-> 0, den |-> 1] }

\* strings that are not <identifier> <operator> <number>
Shapeless == {
    <<" ", "x", "<", "1">>,
    <<"x", "<", "1", " ">>,
    <<"<", "=", "1">>,
    <<"x", " ", "1">>,
    <<"x", " ", "<", "=">>,
    <<"x", " ", "y", "<", "1">>,
    <<"p", "r", "i", "c", "e", " ", "~", "~", " ", "1", "0", "0">>,
    <<"a", "g", "e", "<", "o", "l", "d">>,
    <<"x", "<", "1", "\n", "\n">> }

ConditionValues == {Num(n) : n \in {-2, -1, 0, 1, 2, 100, 101}} \cup {NONE}

StructuredParts ==
    [kind : {"structured"}, identifier : Identifiers, gap1 : Gaps,
     operator : OperatorTexts, gap2 : Gaps, threshold : NumberTexts,
     tail : {<<>>, <<"\n">>}]

TextOf(p) == p.identifier \o p.gap1 \o p.operator \o p.gap2 \o p.threshold.text \o p.tail

ConditionIdle ==
    /\ value = NONE
    /\ condition_str = NONE
    /\ parts = [kind |-> "unused"]
    /\ returned = PENDING

ConditionInit ==
    /\ value \in ConditionValues
    /\ returned = PENDING
    /\ \/ \E p \in StructuredParts :
             /\ parts = p
             /\ condition_str = Str(TextOf(p))
       \/ \E t \in Shapeless :
             /\ parts = [kind |-> "shapeless"]
             /\ condition_str = Str(t)
       \/ /\ parts = [kind |-> "empty"]
          /\ condition_str \in {NONE, Str(<<>>)}
       \/ /\ parts = [kind |-> "not a string"]
          /\ condition_str \in {Num(5), List(<<"x", "<", "1">>)}

\* the call evaluate_sql_condition(value, condition_str)
Evaluate ==
    /\ returned = PENDING
    /\ parts.kind # "unused"
    /\ returned' = Bool(evaluate_sql_condition(value, condition_str))
    /\ UNCHANGED <<value, condition_str, parts, filterVars, amenityVars>>

-----------------------------------------------------------------------------
(* find_nearby_amenities_with_counts, src/rate_house.py:40-69 *)

\* the longest element list the data source answers with
MaxElements == 2
\* the largest count in a hand-made counts mapping
MaxCount == 2

\* One token per Chinese character:
\*   jie yun = the metro marker;          tai_ wan tie lu, tai tie = national rail;
\*   tai wan gao su tie lu, gao tie = high-speed rail
\* (tai_ is the traditional form of tai, a different character).
Metro == <<"jie", "yun">>
Rail1 == <<"tai_", "wan", "tie", "lu">>
Rail2 == <<"tai", "tie">>
HighSpeed1 == <<"tai", "wan", "gao", "su", "tie", "lu">>
HighSpeed2 == <<"gao", "tie">>

\* `sub in s`
Contains(s, sub) ==
    \E i \in 1..(Len(s) - Len(sub) + 1) : SubSeq(s, i, i + Len(sub) - 1) = sub

NoTags ==
    [network |-> ABSENT, operator |-> ABSENT, amenity |-> ABSENT, shop |-> ABSENT,
     leisure |-> ABSENT, highway |-> ABSENT]

TagSets == {
    NoTags,
    [NoTags EXCEPT !.network = Str(<<"tai", "bei">> \o Metro)],
    [NoTags EXCEPT !.operator = Str(Rail1 \o <<"guan", "li", "ju">>)],
    [NoTags EXCEPT !.network = Str(Rail2), !.amenity = Str(<<"cafe">>)],
    [NoTags EXCEPT !.operator = Str(HighSpeed1)],
    [NoTags EXCEPT !.network = Str(HighSpeed2), !.operator = Str(<<"tai", "bei">> \o Metro)],
    [NoTags EXCEPT !.network = Str(HighSpeed2 \o Rail2)],
    [NoTags EXCEPT !.amenity = Str(<<"bank">>)],
    [NoTags EXCEPT !.shop = Str(<<"convenience">>), !.leisure = Str(<<"park">>)],
    [NoTags EXCEPT !.amenity = Str(<<>>), !.leisure = Str(<<"park">>)],
    [NoTags EXCEPT !.highway = Str(<<"bus_stop">>)],
    [NoTags EXCEPT !.network = Str(<<"gong", "che">>), !.highway = Str(<<"bus_stop">>),
                   !.amenity = Str(<<"bank">>)] }

RECURSIVE SeqsUpTo(_, _)
SeqsUpTo(S, n) ==
    IF n = 0 THEN {<<>>}
    ELSE LET shorter == SeqsUpTo(S, n - 1)
         IN  shorter \cup {Append(q, x) : q \in shorter, x \in S}

\* tags.get(key, "")
GetText(tags, k) == IF tags[k].t = "absent" THEN <<>> ELSE tags[k].s

\* a or b: the first truthy operand, else the last
Or(a, b) == IF Truthy(a) THEN a ELSE b

\* the loop body without `if not is_station`: a station's amenity tag is
\* appended as well
ClassifyStationToo(tags) ==
    LET network == GetText(tags, "network")
        operator == GetText(tags, "operator")
        station ==
            IF Contains(network, Metro) \/ Contains(operator, Metro)
            THEN <<"mrt_station">>
            ELSE IF \/ Contains(network, Rail1) \/ Contains(network, Rail2)
                    \/ Contains(operator, Rail1) \/ Contains(operator, Rail2)
            THEN <<"tra_station">>
            ELSE IF \/ Contains(operator, HighSpeed1) \/ Contains(operator, HighSpeed2)
                    \/ Contains(network, HighSpeed1) \/ Contains(network, HighSpeed2)
            THEN <<"hsr_station">>
            ELSE <<>>
        tag_value == Or(Or(Or(Get(tags, "amenity"), Get(tags, "shop")),
                           Get(tags, "leisure")),
                        Get(tags, "highway"))
    IN  station \o (IF Truthy(tag_value) THEN <<tag_value.s[1]>> ELSE <<>>)

\* rate_house.py:42-67: what one pass of the loop body appends to all_found_tags
Classify(tags) ==
    LET network == GetText(tags, "network")
        operator == GetText(tags, "operator")
    IN  IF Contains(network, Metro) \/ Contains(operator, Metro)
        THEN <<"mrt_station">>
        ELSE IF \/ Contains(network, Rail1) \/ Contains(network, Rail2)
                \/ Contains(operator, Rail1) \/ Contains(operator, Rail2)
        THEN <<"tra_station">>
        ELSE IF \/ Contains(operator, HighSpeed1) \/ Contains(operator, HighSpeed2)
                \/ Contains(network, HighSpeed1) \/ Contains(network, HighSpeed2)
        THEN <<"hsr_station">>
        ELSE LET tag_value == Or(Or(Or(Get(tags, "amenity"), Get(tags, "shop")),
                                    Get(tags, "leisure")),
                                 Get(tags, "highway"))
             IN  IF Truthy(tag_value) THEN <<tag_value.s[1]>> ELSE <<>>

\* Counter(items)
Counter(items) ==
    [k \in Range(items) |-> Cardinality({i \in 1..Len(items) : items[i] = k})]

\* counts.get(key, 0)
CountOf(counts, k) == IF k \in DOMAIN counts THEN counts[k] ELSE 0

\* rate_house.py:41-67: one pass of the loop
LoopBody ==
    /\ apc = "loop"
    /\ idx < Len(elements)
    /\ all_found_tags' = all_found_tags \o Classify(elements[idx + 1])
    /\ idx' = idx + 1
    /\ UNCHANGED <<elements, apc, amenity_counts, score, rating, filterVars, condVars>>

\* rate_house.py:69, 84
ReturnCounter ==
    /\ apc = "loop"
    /\ idx = Len(elements)
    /\ amenity_counts' = Counter(all_found_tags)
    /\ apc' = "score"
    /\ UNCHANGED <<elements, idx, all_found_tags, score, rating, filterVars, condVars>>

DigitText(n) ==
    CASE n = 0 -> "0" [] n = 1 -> "1" [] n = 2 -> "2" [] n = 3 -> "3" [] n = 4 -> "4"
      [] n = 5 -> "5" [] n = 6 -> "6" [] n = 7 -> "7" [] n = 8 -> "8" [] n = 9 -> "9"

\* a rule with `>= 0` for `> 0`
RuleNonNegative(counts, k) == IF CountOf(counts, k) >= 0 THEN 1 ELSE 0

\* one rule of rate_house.py:99-107
Rule(counts, k) == IF CountOf(counts, k) > 0 THEN 1 ELSE 0

\* rate_house.py:95-107: the local `score` when the function returns
ScoreOf(counts) ==
    0 + Rule(counts, "mrt_station") + Rule(counts, "tra_station")
      + Rule(counts, "hsr_station")

\* rate_house.py:94-109, called at rate_house.py:112
check_living_function_updated ==
    /\ apc = "score"
    /\ score' = ScoreOf(amenity_counts)
    /\ rating' = <<"rating: ", DigitText(ScoreOf(amenity_counts))>>
    /\ apc' = "done"
    /\ UNCHANGED <<elements, idx, all_found_tags, amenity_counts, filterVars, condVars>>

AmenityIdle ==
    /\ elements = <<>>
    /\ idx = 0
    /\ all_found_tags = <<>>
    /\ apc = "unused"
    /\ amenity_counts = <<>>
    /\ score = 0
    /\ rating = <<>>

AmenityInit ==
    /\ elements \in SeqsUpTo(TagSets, MaxElements)
    /\ idx = 0
    /\ all_found_tags = <<>>
    /\ apc = "loop"
    /\ amenity_counts = <<>>
    /\ score = 0
    /\ rating = <<>>

CountKeys == {"mrt_station", "tra_station", "hsr_station", "bank"}

\* any counts mapping: some of the keys, each with a count
CountsMappings ==
    UNION {[ks -> 0..MaxCount] : ks \in SUBSET CountKeys}

ScoreInit ==
    /\ elements = <<>>
    /\ idx = 0
    /\ all_found_tags = <<>>
    /\ apc = "score"
    /\ amenity_counts \in CountsMappings
    /\ score = 0
    /\ rating = <<>>

-----------------------------------------------------------------------------
(* Specifications *)

FilterIdle ==
    /\ pc = [s \in Sessions |-> "idle"]
    /\ criteria = [s \in Sessions |-> NoCriteria]
    /\ filtered = [s \in Sessions |-> <<>>]
    /\ result = [s \in Sessions |-> NONE]

\* criteria of concurrent sessions
SharedCriteria == {
    NoCriteria,
    [NoCriteria EXCEPT !.location = List(<<2500, 12150>>), !.distance = Num(1)],
    [NoCriteria EXCEPT !.location = List(<<2500, 12150>>), !.distance = Num(150),
                       !.price = Str(Str_price_le_25),
                       !.labels_to_exclude = List(<<"temple">>)],
    [NoCriteria EXCEPT !.age = Str(Str_age_lt_10), !.size = Str(Str_size_ge_40)],
    [NoCriteria EXCEPT !.labels_to_include = List(<<"hospital", "MRT station">>)],
    [NoCriteria EXCEPT !.location = List(<<2500>>), !.distance = Num(1)],
    [NoCriteria EXCEPT !.price = Str(Str_price_bad), !.labels_to_exclude = Num(5)] }

SharedCollections == {hs \in Collections : Len(hs) # 1}

Step(s) ==
    \/ GeoStage(s)
    \/ PriceStage(s)
    \/ AgeStage(s)
    \/ SizeStage(s)
    \/ ExcludeStage(s)
    \/ IncludeStage(s)
    \/ Truncate(s)
    \/ Finish(s)

\* sessions served concurrently (app.py:192-197), each calling filter_houses
Init ==
    /\ house_data \in SharedCollections
    /\ FilterIdle
    /\ ConditionIdle
    /\ AmenityIdle

Next ==
    \/ \E s \in Sessions, c \in SharedCriteria : Call(s, c)
    \/ \E s \in Sessions : Step(s)

Spec == Init /\ [][Next]_vars

\* one session, every criteria object
FilterInit ==
    /\ house_data \in Collections
    /\ FilterIdle
    /\ ConditionIdle
    /\ AmenityIdle

FilterNext ==
    \/ \E c \in AllCriteria : Call("s1", c)
    \/ Step("s1")

SpecFilter == FilterInit /\ [][FilterNext]_vars

CondInit ==
    /\ house_data = <<>>
    /\ FilterIdle
    /\ ConditionInit
    /\ AmenityIdle

SpecCondition == CondInit /\ [][Evaluate]_vars

ClassifyInit ==
    /\ house_data = <<>>
    /\ FilterIdle
    /\ ConditionIdle
    /\ AmenityInit

AmenityNext ==
    \/ LoopBody
    \/ ReturnCounter
    \/ check_living_function_updated

SpecAmenity == ClassifyInit /\ [][AmenityNext]_vars

RatingInit ==
    /\ house_data = <<>>
    /\ FilterIdle
    /\ ConditionIdle
    /\ ScoreInit

SpecScore == RatingInit /\ [][check_living_function_updated]_vars

-----------------------------------------------------------------------------
(* Properties of filter_houses *)

IsNull(x) == x.t \in {"none", "absent"}

AllNull(c) ==
    /\ IsNull(c.location) /\ IsNull(c.distance)
    /\ IsNull(c.price) /\ IsNull(c.age) /\ IsNull(c.size)
    /\ IsNull(c.labels_to_exclude) /\ IsNull(c.labels_to_include)

\* a field that is there has the shape the stage needs
WellFormed(c) ==
    /\ IsNull(c.location) \/ (c.location.t = "list" /\ Len(c.location.l) = 2)
    /\ IsNull(c.distance) \/ c.distance.t = "num"
    /\ IsNull(c.labels_to_exclude) \/ c.labels_to_exclude.t = "list"
    /\ IsNull(c.labels_to_include) \/ c.labels_to_include.t = "list"

Labels(h) == IF h.label.t = "absent" THEN {} ELSE {h.label.l[i] : i \in 1..Len(h.label.l)}

HasCenter(c) == ~IsNull(c.location) /\ ~IsNull(c.distance)

InRadius(c, h) ==
    haversine(c.location.l[1], c.location.l[2], h.latitude, h.longitude) <= c.distance.n

\* h passes every stage whose field is there (not null, not missing)
Satisfies(c, h) ==
    /\ HasCenter(c) => InRadius(c, h)
    /\ ~IsNull(c.price) => evaluate_sql_condition(Num(h.price), c.price)
    /\ ~IsNull(c.age) => evaluate_sql_condition(Num(h.age), c.age)
    /\ ~IsNull(c.size) => evaluate_sql_condition(Num(h.size), c.size)
    /\ ~IsNull(c.labels_to_exclude) =>
           \A l \in Labels(h) : \A i \in 1..Len(c.labels_to_exclude.l) :
               c.labels_to_exclude.l[i] # l
    /\ ~IsNull(c.labels_to_include) =>
           \A i \in 1..Len(c.labels_to_include.l) : c.labels_to_include.l[i] \in Labels(h)

\* the positions of hs whose record passes, in increasing order, and the
\* first n of them
Passing(c, hs) == {i \in 1..Len(hs) : Satisfies(c, hs[i])}
FirstPassing(c, hs, n) ==
    {i \in Passing(c, hs) : Cardinality({j \in Passing(c, hs) : j < i}) < n}

IsSubsequenceAt(res, hs, at) ==
    /\ Len(res) = Cardinality(at)
    /\ \A k \in 1..Len(res) :
          \E i \in at : /\ res[k] = hs[i]
                        /\ Cardinality({j \in at : j < i}) = k - 1

\* C1: filter_houses returns exactly the first min(10, k) of the k listings
\* that satisfy every stage whose field is present in the criteria, in the
\* collection's order: never more than 10, none that fails a present stage,
\* none skipped before a returned one.
C1_FirstTenMatching ==
    \A s \in Sessions :
        (pc[s] = "done" /\ WellFormed(criteria[s])) =>
            /\ result[s].t = "list"
            /\ Len(result[s].l) <= 10
            /\ IsSubsequenceAt(result[s].l, house_data,
                               FirstPassing(criteria[s], house_data, 10))

\* C2: when every field of the criteria is absent or null, filter_houses
\* returns the first 10 listings (all of them when there are fewer), in the
\* original order, none dropped or reordered.
C2_AllAbsentReturnsFirstTen ==
    \A s \in Sessions :
        (pc[s] = "done" /\ AllNull(criteria[s])) =>
            /\ result[s].t = "list"
            /\ Len(result[s].l) = (IF Len(house_data) < 10 THEN Len(house_data) ELSE 10)
            /\ \A i \in 1..Len(result[s].l) : result[s].l[i] = house_data[i]

C2_Witness ==
    \E s \in Sessions :
        /\ pc[s] = "done"
        /\ AllNull(criteria[s])
        /\ criteria[s].age = ABSENT
        /\ criteria[s].price = NONE
        /\ Len(house_data) > 10
        /\ Len(result[s].l) = 10

\* C3: with a center and a radius both non-null, whatever the radius (0 too),
\* every listing returned lies within the radius of the center.
C3_ReturnedWithinRadius ==
    \A s \in Sessions :
        (pc[s] = "done" /\ WellFormed(criteria[s]) /\ HasCenter(criteria[s])) =>
            \A i \in 1..Len(result[s].l) : InRadius(criteria[s], result[s].l[i])

NonEmptyList(x) == x.t = "list" /\ Len(x.l) > 0

C4_Returned ==
    \A s \in Sessions :
        pc[s] = "done" =>
            LET c == criteria[s]
            IN  \A i \in 1..Len(result[s].l) :
                    /\ NonEmptyList(c.labels_to_exclude) =>
                           Labels(result[s].l[i]) \cap Range(c.labels_to_exclude.l) = {}
                    /\ NonEmptyList(c.labels_to_include) =>
                           Range(c.labels_to_include.l) \subseteq Labels(result[s].l[i])

C4_Unlabelled ==
    \A s \in Sessions :
        LET unlabelled(hs) == {hs[i] : i \in {j \in 1..Len(hs) : hs[j].label.t = "absent"}}
        IN  /\ (pc[s] = "exclude" /\ pc'[s] = "include") =>
                   unlabelled(filtered[s]) \subseteq Range(filtered'[s])
            /\ (/\ pc[s] = "include" /\ pc'[s] = "truncate"
                /\ NonEmptyList(criteria[s].labels_to_include)) =>
                   unlabelled(filtered'[s]) = {}

\* C4: no listing returned breaks a present, non-empty label constraint: it
\* shares no label with labels_to_exclude and holds every label of
\* labels_to_include; a listing without a label field counts as having no
\* labels, so the exclusion stage keeps it and a non-empty inclusion stage
\* drops it.
C4_LabelConstraints == [](C4_Returned) /\ [][C4_Unlabelled]_vars

C4_Witness ==
    \E s \in Sessions :
        /\ pc[s] = "done"
        /\ criteria[s].labels_to_exclude = List(<<"temple">>)
        /\ ~NonEmptyList(criteria[s].labels_to_include)
        /\ \E i \in 1..Len(result[s].l) : result[s].l[i].label.t = "absent"
        /\ \E i \in 1..Len(house_data) : "temple" \in Labels(house_data[i])

\* C7: whatever the criteria hold, malformed values included, filter_houses
\* ends with a list and never in an error.
C7_NeverRaises ==
    \A s \in Sessions : pc[s] # "error"

\* an invocation on its own: the stages of app.py:125-146 one after another
AloneGeo(c, hs) ==
    IF Truthy(Get(c, "location")) /\ Truthy(Get(c, "distance")) THEN GeoFilter(c, hs) ELSE hs
AloneCondition(c, key, hs) ==
    IF Truthy(Get(c, key))
    THEN SelectSeq(hs, LAMBDA h : evaluate_sql_condition(Num(h[key]), c[key]))
    ELSE hs
AloneExclude(c, hs) ==
    IF Truthy(Get(c, "labels_to_exclude"))
    THEN SelectSeq(hs, LAMBDA h : ExcludeKeeps(Range(Items(c.labels_to_exclude)), h))
    ELSE hs
AloneInclude(c, hs) ==
    IF Truthy(Get(c, "labels_to_include"))
    THEN SelectSeq(hs, LAMBDA h : IncludeKeeps(Range(Items(c.labels_to_include)), h))
    ELSE hs
Alone(c, hs) ==
    IF hs = <<>> THEN <<>>
    ELSE Slice(AloneInclude(c, AloneExclude(c,
             AloneCondition(c, "size", AloneCondition(c, "age",
                 AloneCondition(c, "price", AloneGeo(c, hs)))))))

C10_ResultOfOwnCall ==
    \A s \in Sessions :
        pc[s] = "done" => result[s] = List(Alone(criteria[s], house_data))

\* C10: however the invocations of concurrent sessions interleave, house_data
\* is never modified, and what an invocation returns is what it would return
\* running alone on its criteria and the collection.
C10_SharedCollectionUntouched ==
    [](C10_ResultOfOwnCall) /\ [][house_data' = house_data]_vars

C10_Witness ==
    /\ pc["s1"] = "done"
    /\ pc["s2"] \in {"price", "age", "size", "exclude", "include", "truncate"}
    /\ criteria["s1"] # criteria["s2"]
    /\ Len(house_data) > 10
    /\ Len(result["s1"].l) > 0
    /\ filtered["s2"] # house_data

-----------------------------------------------------------------------------
(* Properties of evaluate_sql_condition *)

\* v <op> num/den
Holds(v, op, th) ==
    CASE op = <<"<", "=">> -> v * th.den <= th.num
      [] op = <<">", "=">> -> v * th.den >= th.num
      [] op = <<"<">> -> v * th.den < th.num
      [] op = <<">">> -> v * th.den > th.num
      [] op = <<"=">> -> v * th.den = th.num
      [] op = <<"!", "=">> -> v * th.den # th.num

\* condition_str is <identifier> <op> <number>, op one of the six
Comparison ==
    /\ parts.kind = "structured"
    /\ parts.tail = <<>>
    /\ parts.operator \in SixOperators
    /\ parts.threshold.number

Str_price_le_100 == <<"p", "r", "i", "c", "e", " ", "<", "=", " ", "1", "0", "0">>

\* C5 as stated: for every numeric value and every condition string
\* <identifier> <op> <number>, the call returns the truth value of
\* value <op> number.
C5_ReturnsComparison ==
    (returned.t = "bool" /\ value.t = "num" /\ Comparison) =>
        returned.b = Holds(value.n, parts.operator, parts.threshold)

\* C5 as amended: the same, for a <number> that is an unsigned decimal literal
\* (digits with at most one decimal point, no sign, no exponent); so
\* 'price <= 100' is true for 100 and false for 101.
C5_ReturnsComparisonOfPlainNumber ==
    /\ (returned.t = "bool" /\ value.t = "num" /\ Comparison /\ parts.threshold.plain) =>
           returned.b = Holds(value.n, parts.operator, parts.threshold)
    /\ (returned.t = "bool" /\ condition_str = Str(Str_price_le_100)) =>
           /\ value = Num(100) => returned.b
           /\ value = Num(101) => ~returned.b

C5_Witness ==
    /\ returned = Bool(FALSE)
    /\ condition_str = Str(Str_price_le_100)
    /\ value = Num(101)
    /\ Comparison
    /\ parts.threshold.plain

\* the condition is absent, empty, not a string, not of the shape, uses an
\* operator outside the six, or has a threshold that is no number
Malformed ==
    \/ parts.kind \in {"empty", "not a string", "shapeless"}
    \/ /\ parts.kind = "structured"
       /\ parts.tail = <<>>
       /\ \/ parts.operator \notin SixOperators
          \/ ~parts.threshold.plain

\* C6: for every value, a call with a malformed condition returns true (and
\* so keeps the listing).
C6_MalformedIsTrue ==
    (returned.t # "pending" /\ Malformed) => returned = Bool(TRUE)

C6_Witness ==
    /\ returned = Bool(TRUE)
    /\ parts.kind = "structured"
    /\ parts.operator = <<"<", "=">>
    /\ parts.threshold.text = <<"1", ".", "2", ".", "3">>
    /\ value = Num(101)

-----------------------------------------------------------------------------
(* Properties of the classification and of the score *)

Text(tags, k) == IF tags[k].t = "absent" THEN <<>> ELSE tags[k].s

Marked(tags, markers) ==
    \E m \in markers : Contains(Text(tags, "network"), m) \/ Contains(Text(tags, "operator"), m)

GeneralKeys == <<"amenity", "shop", "leisure", "highway">>

\* the label the chain of rules gives, as a sequence of no or one label
ChainLabel(tags) ==
    LET filled == {i \in 1..Len(GeneralKeys) : Text(tags, GeneralKeys[i]) # <<>>}
    IN  CASE Marked(tags, {Metro}) -> <<"mrt_station">>
          [] ~Marked(tags, {Metro}) /\ Marked(tags, {Rail1, Rail2}) -> <<"tra_station">>
          [] ~Marked(tags, {Metro, Rail1, Rail2}) /\ Marked(tags, {HighSpeed1, HighSpeed2}) ->
                 <<"hsr_station">>
          [] ~Marked(tags, {Metro, Rail1, Rail2, HighSpeed1, HighSpeed2}) /\ filled # {} ->
                 LET first == CHOOSE i \in filled : \A j \in filled : i <= j
                 IN  <<Text(tags, GeneralKeys[first])[1]>>
          [] OTHER -> <<>>

RECURSIVE Total(_, _)
Total(counts, keys) ==
    IF keys = {} THEN 0
    ELSE LET k == CHOOSE x \in keys : TRUE
         IN  counts[k] + Total(counts, keys \ {k})

C8_OneLabelEach ==
    idx' = idx + 1 =>
        /\ all_found_tags' = all_found_tags \o ChainLabel(elements[idx'])
        /\ Len(all_found_tags') - Len(all_found_tags) \in {0, 1}

C8_CountsBounded ==
    /\ Len(all_found_tags) <= idx
    /\ apc \in {"score", "done"} =>
           Total(amenity_counts, DOMAIN amenity_counts) <= Len(elements)

\* C8: each element gets no or one label, that of the first rule of the chain
\* metro, national rail, high-speed rail, then the first non-empty of amenity,
\* shop, leisure, highway; so the counts never add up to more than the number
\* of elements.
C8_FirstRuleWins == [](C8_CountsBounded) /\ [][C8_OneLabelEach]_vars

C8_Witness ==
    /\ apc = "score"
    /\ Len(elements) = 2
    /\ elements[1].network = Str(HighSpeed2) /\ elements[1].operator # ABSENT
    /\ elements[2].network = Str(Rail2) /\ elements[2].amenity = Str(<<"cafe">>)
    /\ DOMAIN amenity_counts = {"mrt_station", "tra_station"}
    /\ amenity_counts["mrt_station"] = 1
    /\ amenity_counts["tra_station"] = 1

Transit == {"mrt_station", "tra_station", "hsr_station"}

\* C9: the score is the number of transit categories whose count is above 0,
\* a key that is missing counting as 0; it lies in 0..3 and no other category
\* changes it.
C9_ScoreCountsTransit ==
    apc = "done" =>
        /\ score = Cardinality({k \in Transit \cap DOMAIN amenity_counts : amenity_counts[k] > 0})
        /\ score \in 0..3
        /\ rating[2] = DigitText(score)

C9_Witness ==
    /\ apc = "done"
    /\ DOMAIN amenity_counts = Transit
    /\ amenity_counts["mrt_station"] = 2
    /\ amenity_counts["tra_station"] = 0
    /\ amenity_counts["hsr_station"] = 0
    /\ score = 1

C9_WitnessMissingKey ==
    /\ apc = "done"
    /\ DOMAIN amenity_counts = {"hsr_station", "bank"}
    /\ score = 1

=============================================================================
